---- MODULE Spec2Model ----
(***************************************************************************)
(* A model of mailgunlog.py: the date window resolution of main(), the     *)
(* credential lookup, the paginating generator logs() and the loop of      *)
(* main() that consumes it in text or in JSON mode.                        *)
(*                                                                         *)
(* Representation of Python values:                                        *)
(*   None / an absent mapping key   the empty tuple  <<>>                  *)
(*   a present value v              the 1-tuple      <<v>>                 *)
(*   a 'YYYY/MM/DD' string          the tuple of the integers between the  *)
(*                                  slashes (what split('/') and int give) *)
(*   the empty string ''            "" (or the empty field tuple for a     *)
(*                                  date string)                           *)
(*   a datetime                     <<year, month, day, hour, min, sec>>   *)
(***************************************************************************)
EXTENDS Integers, Sequences, FiniteSets, TLC

None == <<>>

Some(v) == <<v>>

(* Python truthiness ("if v:") of an optional text whose empty value is    *)
(* the empty tuple, of an optional TLA+ string and of an optional integer. *)
Truthy(opt) == opt # None /\ opt[1] # <<>>

TruthyStr(opt) == opt # None /\ opt[1] # ""

TruthyInt(opt) == opt # None /\ opt[1] # 0

-----------------------------------------------------------------------------
(* Calendar arithmetic of the datetime module. *)

IsLeap(y) == (y % 4 = 0 /\ y % 100 # 0) \/ y % 400 = 0

DaysInMonth(y, m) ==
  IF m = 2 THEN (IF IsLeap(y) THEN 29 ELSE 28)
  ELSE IF m \in {4, 6, 9, 11} THEN 30 ELSE 31

(* The datetime constructor: positional year, month, day, hour, minute,    *)
(* second, microsecond; missing trailing fields default to 0, fewer than three or  *)
(* an out-of-range field raises.                                           *)
Field(fields, i) == IF i <= Len(fields) THEN fields[i] ELSE 0

DatetimeOk(fields) ==
  /\ Len(fields) >= 3
  /\ Len(fields) <= 7
  /\ fields[1] >= 1 /\ fields[1] <= 9999
  /\ fields[2] >= 1 /\ fields[2] <= 12
  /\ fields[3] >= 1 /\ fields[3] <= DaysInMonth(fields[1], fields[2])
  /\ Field(fields, 4) \in 0..23
  /\ Field(fields, 5) \in 0..59
  /\ Field(fields, 6) \in 0..59
  /\ Field(fields, 7) >= 0 /\ Field(fields, 7) <= 999999

Datetime(fields) == << fields[1], fields[2], fields[3],
                       Field(fields, 4), Field(fields, 5), Field(fields, 6) >>

(* date - relativedelta(days=n): n calendar days back (forward for n < 0). *)
PrevDay(d) ==
  IF d[3] > 1 THEN << d[1], d[2], d[3] - 1 >>
  ELSE IF d[2] > 1 THEN << d[1], d[2] - 1, DaysInMonth(d[1], d[2] - 1) >>
  ELSE << d[1] - 1, 12, 31 >>

NextDay(d) ==
  IF d[3] < DaysInMonth(d[1], d[2]) THEN << d[1], d[2], d[3] + 1 >>
  ELSE IF d[2] < 12 THEN << d[1], d[2] + 1, 1 >>
  ELSE << d[1] + 1, 1, 1 >>

RECURSIVE MinusDays(_, _)
MinusDays(d, n) ==
  IF n = 0 THEN d
  ELSE IF n > 0 THEN MinusDays(PrevDay(d), n - 1)
  ELSE MinusDays(NextDay(d), n + 1)

(* Day of week, 0 = Monday .. 6 = Sunday (Sakamoto's method). *)
MonthOffset == << 0, 3, 2, 5, 0, 3, 5, 1, 4, 6, 2, 4 >>

Weekday(y, m, d) ==
  LET yy == IF m < 3 THEN y - 1 ELSE y
      sun0 == (yy + (yy \div 4) - (yy \div 100) + (yy \div 400)
               + MonthOffset[m] + d) % 7
  IN (sun0 + 6) % 7

DayAbbr == << "Mon", "Tue", "Wed", "Thu", "Fri", "Sat", "Sun" >>

MonthAbbr == << "Jan", "Feb", "Mar", "Apr", "May", "Jun",
                "Jul", "Aug", "Sep", "Oct", "Nov", "Dec" >>

(* date.strftime('%a, %d %b %Y %H:%M:%S -0000'): the fields of the string. *)
StrftimeRfc2822(dt) ==
  [ a |-> DayAbbr[Weekday(dt[1], dt[2], dt[3]) + 1],
    d |-> dt[3], b |-> MonthAbbr[dt[2]], Y |-> dt[1],
    H |-> dt[4], M |-> dt[5], S |-> dt[6], zone |-> "-0000" ]

(* date.strftime('%Y/%m/%d') followed by split('/') and int. *)
StrftimeYmd(d) == << d[1], d[2], d[3] >>

(* strdate_to_rfc2822(value, midnight, now) at the clock reading utcnow:   *)
(* [raised |-> TRUE] or [raised |-> FALSE, val |-> the formatted string].  *)
(* The timestamp of line 75 is computed and never used.                    *)
Raised == [ raised |-> TRUE ]

Returned(v) == [ raised |-> FALSE, val |-> v ]

strdate_to_rfc2822(value, midnight, now, utcnow) ==
  IF midnight /\ now THEN Raised
  ELSE
    LET strdate == IF Truthy(value) THEN value[1] ELSE StrftimeYmd(utcnow)
        tail == IF midnight THEN << 0, 0, 0 >>
                ELSE IF now THEN << utcnow[4], utcnow[5], utcnow[6] >>
                ELSE << 23, 59, 59 >>
        datetimetuple == strdate \o tail
    IN IF DatetimeOk(datetimetuple)
       THEN Returned(StrftimeRfc2822(Datetime(datetimetuple)))
       ELSE Raised


-----------------------------------------------------------------------------
(* The text formatter of main(): dictionary access with defaults, upper(), *)
(* datetime.utcfromtimestamp and the line layout.                          *)

(* dict.get(key, default) on a mapping modelled as a function on its keys. *)
Get(dict, key, default) == IF key \in DOMAIN dict THEN dict[key] ELSE default

EmptyDict == << >>

(* str.upper() on the event names of the provider. *)
Upper(s) ==
  CASE s = "accepted" -> "ACCEPTED"
    [] s = "delivered" -> "DELIVERED"
    [] s = "failed" -> "FAILED"
    [] s = "opened" -> "OPENED"
    [] OTHER -> s

(* Days since 1970-01-01 to a civil date (proleptic Gregorian calendar). *)
CivilFromDays(days) ==
  LET z == days + 719468
      era == z \div 146097
      doe == z - era * 146097
      yoe == (doe - (doe \div 1460) + (doe \div 36524) - (doe \div 146096)) \div 365
      doy == doe - (365 * yoe + (yoe \div 4) - (yoe \div 100))
      mp == (5 * doy + 2) \div 153
      d == doy - ((153 * mp + 2) \div 5) + 1
      m == IF mp < 10 THEN mp + 3 ELSE mp - 9
      y == yoe + era * 400 + (IF m <= 2 THEN 1 ELSE 0)
  IN << y, m, d >>

(* datetime.utcfromtimestamp(ts) for an integer number of epoch seconds. *)
UtcFromTimestamp(ts) ==
  LET date == CivilFromDays(ts \div 86400)
      secs == ts % 86400
  IN << date[1], date[2], date[3],
        secs \div 3600, (secs % 3600) \div 60, secs % 60 >>

(* The timestamp argument of utcfromtimestamp: log.get('timestamp', '').   *)
(* The default '' is no number, and utcfromtimestamp('') raises TypeError. *)
TimestampArg(log) == Get(log, "timestamp", "")

TimestampIsNumber(log) == "timestamp" \in DOMAIN log

(* Lines 177-182: the line of one record, or the TypeError of line 179.    *)
FormatLine(log) ==
  LET status == Upper(Get(log, "event", ""))
      ok == status \in { "ACCEPTED", "DELIVERED" }
      ds == Get(log, "delivery-status", EmptyDict)
      description == Get(ds, "description", "")
      reason == IF description # "" THEN description ELSE Get(ds, "message", "")
      subject == Get(Get(Get(log, "message", EmptyDict),
                         "headers", EmptyDict), "subject", "")
  IN IF ~TimestampIsNumber(log) THEN Raised
     ELSE Returned([ kind |-> "line",
                     timestamp |-> UtcFromTimestamp(TimestampArg(log)),
                     status |-> status,
                     recipient |-> Get(log, "recipient", ""),
                     reason |-> IF ok THEN None ELSE Some(reason),
                     subject |-> subject ])

-----------------------------------------------------------------------------
(* The request of logs(): URLs, query parameters and the provider's pages. *)

(* Line 15: the events URL of a domain. *)
EventsUrl(domain) ==
  [ scheme |-> "https", host |-> "api.eu.mailgun.net",
    path |-> << "v3", domain, "events" >> ]

(* A URL requests.get can send: one with a schema. *)
UrlValid(u) == u.scheme \in { "http", "https" }

(* Lines 19-22 and 26-30: the filters among the query parameters. *)
FilterParams(begin, end, severity, type) ==
  [ k \in  (IF Truthy(begin) THEN { "begin" } ELSE {})
      \cup (IF Truthy(end) THEN { "end" } ELSE {})
      \cup (IF TruthyStr(severity) THEN { "severity" } ELSE {})
      \cup (IF type = Some("failed") THEN { "event" } ELSE {})
    |-> CASE k = "begin" -> begin[1]
          [] k = "end" -> end[1]
          [] k = "severity" -> severity[1]
          [] k = "event" -> "failed" ]

(* Lines 17-30: the query parameters of the first request. *)
BuildParamsAlwaysDescending(begin, end, severity, type) ==
  FilterParams(begin, end, severity, type) @@ [ ascending |-> "no" ]

BuildParams(begin, end, severity, type) ==
  IF Truthy(end)
  THEN FilterParams(begin, end, severity, type)
  ELSE FilterParams(begin, end, severity, type) @@ [ ascending |-> "no" ]

(* Line 39: response.ok. *)
ResponseOkAlways(status) == TRUE

ResponseOk(status) == status < 400

(* Line 48: the loop goes on to paging.next when the page had items. *)
MorePagesWhileNextGiven(data) == data.next # None

MorePages(data) == data.items # << >>

(* Line 51: the parameters of every request after the first. *)
PagedParamsKept(params) == params

PagedParams(params) == None

-----------------------------------------------------------------------------
(* The program state. *)

VARIABLES
  args,       \* the namespace argparse returns (line 122)
  environ,    \* os.environ: MAILGUN_DOMAIN, MAILGUN_API_KEY
  clock,      \* what utcnow() and date.today() read during the run
  pc,         \* where main() is
  begin,      \* main's begin, the begin argument of logs()
  end,        \* main's end, the end argument of logs()
  type,       \* the type argument of logs()
  severity,   \* the severity argument of logs()
  domain,     \* main's domain
  api_key,    \* main's api_key
  jsondata,   \* the document of JSON mode
  stdout,     \* what was printed to sys.stdout, in order
  stderr,     \* what was printed to sys.stderr, in order
  exitcode,   \* the exit status of the process, once it has ended
  error,      \* the exception that ended the run, if one did
  gpc,        \* where the generator logs() is
  url,        \* logs(): url
  params,     \* logs(): params
  data,       \* logs(): data, the page being iterated
  idx,        \* logs(): position of the for loop in data.items (1-based)
  log,        \* the record the generator handed to the loop of main()
  requests,   \* every requests.get call sent, in order
  pages,      \* every response received, in order
  yielded     \* every record yielded, in order

vars == << args, environ, clock, pc, begin, end, type, severity, domain,
           api_key, jsondata, stdout, stderr, exitcode, error, gpc, url,
           params, data, idx, log, requests, pages, yielded >>

mainVars == << pc, begin, end, domain, api_key, jsondata >>

genVars == << gpc, url, params, data, idx, log, requests, pages, yielded >>

inputVars == << args, environ, clock, type, severity >>

-----------------------------------------------------------------------------
(* Bounds and input sets. *)

(* The provider holds at most this many records over all pages of a run. *)
MaxRecords == 3

(* The same, in the specifications that vary the command line instead. *)
MaxRecordsSmall == 1

(* The largest day count given with -d. *)
MaxDays == 2

WireMidnight == StrftimeRfc2822(<< 2024, 1, 1, 0, 0, 0 >>)

WireEvening == StrftimeRfc2822(<< 2024, 1, 31, 18, 30, 0 >>)

EmptyText == << >>

RecDelivered ==
  [ event |-> "delivered", timestamp |-> 1704067200, recipient |-> "a@b.com",
    message |-> [ headers |-> [ subject |-> "Hello" ] ] ]

RecFailed ==
  [ event |-> "failed", timestamp |-> 1709251199, recipient |-> "c@d.org",
    message |-> [ headers |-> [ subject |-> "Invoice" ] ] ]
  @@ ("delivery-status" :> [ description |-> "", message |-> "Mailbox full" ])

RecNoTimestamp == [ event |-> "accepted", recipient |-> "a@b.com" ]

RecBare == [ timestamp |-> 0 ]

Records == { RecDelivered, RecFailed, RecNoTimestamp }

PageUrl(token) ==
  [ scheme |-> "https", host |-> "api.eu.mailgun.net",
    path |-> << "v3", "example.org", "events", token >> ]

MalformedUrl == [ scheme |-> "", host |-> "", path |-> << "garbage" >> ]

PageUrls == { PageUrl("tokenA"), PageUrl("tokenB") }

RECURSIVE SeqsUpTo(_, _)
SeqsUpTo(S, n) ==
  IF n = 0 THEN { << >> }
  ELSE LET shorter == SeqsUpTo(S, n - 1)
       IN shorter \cup { Append(q, r) : q \in { t \in shorter : Len(t) = n - 1 }, r \in S }

RECURSIVE Concat(_)
Concat(seqs) == IF seqs = << >> THEN << >> ELSE Head(seqs) \o Concat(Tail(seqs))

(* The records of all pages received so far. *)
Served == Concat([ i \in 1..Len(pages) |-> pages[i].items ])

(* What the provider may answer next: a status, and a JSON body with items *)
(* and paging.next (a URL, something that is no URL, or nothing). A        *)
(* response with an error status may carry a body too.                     *)
Remaining(maxRecords) ==
  IF Len(Served) < maxRecords THEN maxRecords - Len(Served) ELSE 0

OkResponses(recs, nexts, maxRecords) ==
  [ status : { 200 },
    items : SeqsUpTo(recs, Remaining(maxRecords)),
    next : nexts ]

ErrorResponses(maxRecords) ==
  [ status : { 404, 500 },
    items : SeqsUpTo({ RecDelivered }, IF Remaining(maxRecords) > 0 THEN 1 ELSE 0),
    next : { None, Some(PageUrl("tokenA")) } ]

AllNexts == { None, Some(MalformedUrl) } \cup { Some(u) : u \in PageUrls }

RichResponses ==
  OkResponses(Records, AllNexts, MaxRecords) \cup ErrorResponses(MaxRecords)

SmallResponses ==
  OkResponses({ RecDelivered }, { None, Some(PageUrl("tokenA")) }, MaxRecordsSmall)
  \cup ErrorResponses(MaxRecordsSmall)

SparseResponses ==
  OkResponses({ RecBare, RecNoTimestamp }, { Some(PageUrl("tokenB")) }, MaxRecordsSmall)
  \cup ErrorResponses(MaxRecordsSmall)

-----------------------------------------------------------------------------
(* main(): the date interval (lines 131-143). *)

(* Lines 132-134 and 137: main's begin, or the exception raised. *)
ResolveBegin(a, c) ==
  IF TruthyInt(a.days)
  THEN LET begin_day == MinusDays(c.today, a.days[1])
           r == strdate_to_rfc2822(Some(StrftimeYmd(begin_day)), TRUE, FALSE, c.utcnow)
       IN IF r.raised THEN Raised ELSE Returned(Some(r.val))
  ELSE IF Truthy(a.begin)
  THEN LET r == strdate_to_rfc2822(a.begin, TRUE, FALSE, c.utcnow)
       IN IF r.raised THEN Raised ELSE Returned(Some(r.val))
  ELSE Returned(None)

(* Lines 132, 135 and 138: main's end, or the exception raised. *)
ResolveEnd(a, c) ==
  IF TruthyInt(a.days)
  THEN LET r == strdate_to_rfc2822(None, FALSE, FALSE, c.utcnow)
       IN IF r.raised THEN Raised ELSE Returned(Some(r.val))
  ELSE IF Truthy(a.end)
  THEN LET r == strdate_to_rfc2822(a.end, FALSE, TRUE, c.utcnow)
       IN IF r.raised THEN Raised ELSE Returned(Some(r.val))
  ELSE Returned(None)

(* Lines 146-163: a credential from the argument or else the environment;  *)
(* os.environ[...] raises KeyError when the variable is not set.           *)
ResolveCredentialOrEmpty(arg, envval) ==
  IF TruthyStr(arg) THEN Returned(arg[1])
  ELSE IF envval # None THEN Returned(envval[1])
  ELSE Returned("")

ResolveCredential(arg, envval) ==
  IF TruthyStr(arg) THEN Returned(arg[1])
  ELSE IF envval # None THEN Returned(envval[1])
  ELSE Raised

(* An exception nobody catches: the interpreter prints the traceback on    *)
(* stderr and the process ends with status 1.                              *)
Uncaught(exc, err) ==
  /\ error' = Some(exc)
  /\ stderr' = Append(err, [ kind |-> "traceback", exc |-> exc ])
  /\ exitcode' = Some(1)
  /\ pc' = "crashed"

(* Lines 124-127. *)
PrintVersion ==
  /\ pc = "start"
  /\ args.version
  /\ stdout' = Append(stdout, [ kind |-> "version" ])
  /\ exitcode' = Some(0)
  /\ pc' = "exited"
  /\ UNCHANGED << inputVars, begin, end, domain, api_key, jsondata, stderr,
                  error, genVars >>

(* Lines 129-143. *)
DateInterval ==
  /\ pc = "start"
  /\ ~args.version
  /\ LET b == ResolveBegin(args, clock)
         e == ResolveEnd(args, clock)
     IN IF b.raised \/ e.raised
        THEN /\ Uncaught([ type |-> "ValueError", at |-> "strdate_to_rfc2822" ], stderr)
             /\ UNCHANGED << begin, end, jsondata >>
        ELSE /\ begin' = b.val
             /\ end' = e.val
             /\ jsondata' =
                  (IF Truthy(b.val) THEN [ begin |-> b.val[1] ] ELSE EmptyDict)
                  @@ (IF Truthy(e.val) THEN [ end |-> e.val[1] ] ELSE EmptyDict)
                  @@ [ logs |-> << >> ]
             /\ pc' = "credentials"
             /\ UNCHANGED << stderr, exitcode, error >>
  /\ UNCHANGED << inputVars, domain, api_key, stdout, genVars >>

(* Lines 145-168; the call logs(...) of line 173 creates the generator. *)
Credentials ==
  /\ pc = "credentials"
  /\ LET d == ResolveCredential(args.domain, environ.MAILGUN_DOMAIN)
         k == ResolveCredential(args.api_key, environ.MAILGUN_API_KEY)
     IN IF d.raised
        THEN /\ stdout' = Append(stdout, [ kind |-> "message", text |-> "Missing mailgun API key" ])
             /\ exitcode' = Some(1)
             /\ pc' = "exited"
             /\ UNCHANGED << domain, api_key, jsondata, stderr, gpc >>
        ELSE IF k.raised
        THEN /\ domain' = Some(d.val)
             /\ jsondata' = [ domain |-> d.val ] @@ jsondata
             /\ stdout' = Append(stdout, [ kind |-> "message", text |-> "Missing mailgun API key" ])
             /\ exitcode' = Some(1)
             /\ pc' = "exited"
             /\ UNCHANGED << api_key, stderr, gpc >>
        ELSE /\ domain' = Some(d.val)
             /\ jsondata' = [ domain |-> d.val ] @@ jsondata
             /\ api_key' = Some(k.val)
             /\ stderr' = IF args.verbose
                          THEN stderr \o << [ kind |-> "begin date", value |-> begin ],
                                            [ kind |-> "end date", value |-> end ] >>
                          ELSE stderr
             /\ pc' = "loop"
             /\ gpc' = "created"
             /\ UNCHANGED << stdout, exitcode >>
  /\ UNCHANGED << inputVars, begin, end, error, url, params, data, idx, log,
                  requests, pages, yielded >>

-----------------------------------------------------------------------------
(* logs(): the generator, and the loop of main() that drives it. *)

(* Lines 15-30: the first next() runs the generator up to the loop. *)
LogsStart ==
  /\ pc = "loop"
  /\ gpc = "created"
  /\ url' = EventsUrl(domain[1])
  /\ params' = Some(BuildParams(begin, end, severity, type))
  /\ gpc' = "request"
  /\ UNCHANGED << inputVars, mainVars, stdout, stderr, exitcode, error, data,
                  idx, log, requests, pages, yielded >>

(* Lines 35-37: the diagnostics of one request. *)
Diagnostics(resp) ==
  IF args.verbose
  THEN << [ kind |-> "request", method |-> "GET", url |-> url, params |-> params ],
          [ kind |-> "status code", value |-> resp.status ] >>
  ELSE << >>

(* Lines 33-44: one request and its response resp. requests.get refuses a  *)
(* URL without a schema before anything is sent.                           *)
LogsRequest(resp) ==
  /\ pc = "loop"
  /\ gpc = "request"
  /\ IF ~UrlValid(url)
     THEN /\ Uncaught([ type |-> "MissingSchema" ], stderr)
          /\ gpc' = "raised"
          /\ UNCHANGED << requests, pages, data, idx >>
     ELSE /\ requests' = Append(requests, [ url |-> url, params |-> params,
                                            auth |-> << "api", api_key[1] >> ])
          /\ pages' = Append(pages, resp)
          /\ IF ~ResponseOk(resp.status)
             THEN /\ Uncaught([ type |-> "ValueError", status_code |-> resp.status ],
                              stderr \o Diagnostics(resp))
                  /\ gpc' = "raised"
                  /\ UNCHANGED << data, idx >>
             ELSE /\ data' = Some([ items |-> resp.items, next |-> resp.next ])
                  /\ idx' = 1
                  /\ gpc' = "items"
                  /\ stderr' = stderr \o Diagnostics(resp)
                  /\ UNCHANGED << pc, exitcode, error >>
  /\ UNCHANGED << inputVars, begin, end, domain, api_key, jsondata, stdout,
                  url, params, log, yielded >>

(* Lines 45-46: the generator yields the next record of the page and is    *)
(* suspended; control is with the loop body of main().                     *)
LogsYield ==
  /\ pc = "loop"
  /\ gpc = "items"
  /\ idx <= Len(data[1].items)
  /\ log' = Some(data[1].items[idx])
  /\ yielded' = Append(yielded, data[1].items[idx])
  /\ idx' = idx + 1
  /\ gpc' = "suspended"
  /\ UNCHANGED << inputVars, mainVars, stdout, stderr, exitcode, error, url,
                  params, data, requests, pages >>

(* Lines 174-175: the loop body in JSON mode, then next() resumes logs(). *)
LoopBodyJsonPrinting ==
  /\ pc = "loop"
  /\ gpc = "suspended"
  /\ args.json
  /\ jsondata' = [ jsondata EXCEPT !.logs = Append(@, log[1]) ]
  /\ stdout' = Append(stdout, [ kind |-> "json", doc |-> jsondata' ])
  /\ gpc' = "items"
  /\ UNCHANGED << inputVars, pc, begin, end, domain, api_key, stderr,
                  exitcode, error, url, params, data, idx, log, requests,
                  pages, yielded >>

LoopBodyJson ==
  /\ pc = "loop"
  /\ gpc = "suspended"
  /\ args.json
  /\ jsondata' = [ jsondata EXCEPT !.logs = Append(@, log[1]) ]
  /\ gpc' = "items"
  /\ UNCHANGED << inputVars, pc, begin, end, domain, api_key, stdout, stderr,
                  exitcode, error, url, params, data, idx, log, requests,
                  pages, yielded >>

(* Lines 176-183: the loop body in text mode, then next() resumes logs(). *)
LoopBodyTextFailuresOnly ==
  /\ pc = "loop"
  /\ gpc = "suspended"
  /\ ~args.json
  /\ LET line == FormatLine(log[1])
     IN IF line.raised
        THEN /\ Uncaught([ type |-> "TypeError", at |-> "utcfromtimestamp" ], stderr)
             /\ UNCHANGED << stdout, gpc >>
        ELSE /\ stdout' = IF line.val.reason # None
                          THEN Append(stdout, line.val) ELSE stdout
             /\ gpc' = "items"
             /\ UNCHANGED << pc, stderr, exitcode, error >>
  /\ UNCHANGED << inputVars, begin, end, domain, api_key, jsondata, url,
                  params, data, idx, log, requests, pages, yielded >>

LoopBodyText ==
  /\ pc = "loop"
  /\ gpc = "suspended"
  /\ ~args.json
  /\ LET line == FormatLine(log[1])
     IN IF line.raised
        THEN /\ Uncaught([ type |-> "TypeError", at |-> "utcfromtimestamp" ], stderr)
             /\ UNCHANGED << stdout, gpc >>
        ELSE /\ stdout' = Append(stdout, line.val)
             /\ gpc' = "items"
             /\ UNCHANGED << pc, stderr, exitcode, error >>
  /\ UNCHANGED << inputVars, begin, end, domain, api_key, jsondata, url,
                  params, data, idx, log, requests, pages, yielded >>

(* Lines 48-54: after the last record of a page, on to paging.next or the  *)
(* end of the generator; a page without paging.next raises KeyError.       *)
LogsPaging ==
  /\ pc = "loop"
  /\ gpc = "items"
  /\ idx > Len(data[1].items)
  /\ IF MorePages(data[1])
     THEN IF data[1].next = None
          THEN /\ Uncaught([ type |-> "KeyError", key |-> "next" ], stderr)
               /\ gpc' = "raised"
               /\ UNCHANGED << url, params >>
          ELSE /\ url' = data[1].next[1]
               /\ params' = PagedParams(params)
               /\ gpc' = "request"
               /\ UNCHANGED << pc, stderr, exitcode, error >>
     ELSE /\ gpc' = "returned"
          /\ UNCHANGED << url, params, pc, stderr, exitcode, error >>
  /\ UNCHANGED << inputVars, begin, end, domain, api_key, jsondata, stdout,
                  data, idx, log, requests, pages, yielded >>

(* Lines 185-186 and the end of main(): the process ends with status 0. *)
Finish ==
  /\ pc = "loop"
  /\ gpc = "returned"
  /\ stdout' = IF args.json
               THEN Append(stdout, [ kind |-> "json", doc |-> jsondata ])
               ELSE stdout
  /\ exitcode' = Some(0)
  /\ pc' = "exited"
  /\ UNCHANGED << inputVars, begin, end, domain, api_key, jsondata, stderr,
                  error, genVars >>

-----------------------------------------------------------------------------
(* The specifications. *)

Clocks ==
  { [ utcnow |-> << 2024, 3, 1, 10, 20, 30 >>, today |-> << 2024, 3, 1 >> ],
    [ utcnow |-> << 2024, 1, 1, 23, 59, 59 >>, today |-> << 2024, 1, 2 >> ],
    [ utcnow |-> << 2024, 1, 1, 0, 30, 0 >>, today |-> << 2023, 12, 31 >> ] }

DaysArgs == { None } \cup { Some(n) : n \in 0..MaxDays }

BeginArgs == { None, Some(<< 2024, 1, 1 >>), Some(<< 2024, 13, 1 >>) }

EndArgs == { None, Some(<< 2024, 2, 29 >>), Some(<< 2024, 2 >>) }

DomainArgs == { None, Some(""), Some("example.org") }

KeyArgs == { None, Some("key-123") }

EnvDomains == { None, Some(""), Some("env.example.org") }

EnvKeys == { None, Some("key-env") }

ArgsSet ==
  [ days : DaysArgs, begin : BeginArgs, end : EndArgs, json : BOOLEAN,
    verbose : BOOLEAN, version : BOOLEAN, domain : DomainArgs,
    api_key : KeyArgs ]

EnvironSet == [ MAILGUN_DOMAIN : EnvDomains, MAILGUN_API_KEY : EnvKeys ]

(* The generator before line 173 creates it. *)
NoGenerator ==
  /\ gpc = "none"
  /\ url = None
  /\ params = None
  /\ data = None
  /\ idx = 0
  /\ log = None
  /\ requests = << >>
  /\ pages = << >>
  /\ yielded = << >>

(* main() after parse_args (line 122), for every command line, environment *)
(* and clock of the input sets.                                            *)
Init ==
  /\ args \in ArgsSet
  /\ environ \in EnvironSet
  /\ clock \in Clocks
  /\ pc = "start"
  /\ begin = None
  /\ end = None
  /\ type = None
  /\ severity = None
  /\ domain = None
  /\ api_key = None
  /\ jsondata = [ logs |-> << >> ]
  /\ stdout = << >>
  /\ stderr = << >>
  /\ exitcode = None
  /\ error = None
  /\ NoGenerator

Next ==
  \/ PrintVersion
  \/ DateInterval
  \/ Credentials
  \/ LogsStart
  \/ \E resp \in SmallResponses : LogsRequest(resp)
  \/ LogsYield
  \/ LoopBodyJson
  \/ LoopBodyText
  \/ LogsPaging
  \/ Finish

Spec == Init /\ [][Next]_vars

(* main() at line 173, about to iterate logs(...), after the command lines *)
(* of FetchArgs; the provider answers with every page of RichResponses.    *)
FetchArgs ==
  { a \in ArgsSet :
      /\ a.days = None
      /\ << a.begin, a.end >> \in { << None, None >>,
                                    << Some(<< 2024, 1, 1 >>), Some(<< 2024, 2, 29 >>) >> }
      /\ ~a.version
      /\ a.domain = Some("example.org")
      /\ a.api_key = Some("key-123") }

FetchClock == [ utcnow |-> << 2024, 3, 1, 10, 20, 30 >>, today |-> << 2024, 3, 1 >> ]

NoEnviron == [ MAILGUN_DOMAIN |-> None, MAILGUN_API_KEY |-> None ]

AtLoop(a, env, c, b, e) ==
  /\ args = a
  /\ environ = env
  /\ clock = c
  /\ pc = "loop"
  /\ begin = b
  /\ end = e
  /\ domain = Some(ResolveCredential(a.domain, env.MAILGUN_DOMAIN).val)
  /\ api_key = Some(ResolveCredential(a.api_key, env.MAILGUN_API_KEY).val)
  /\ jsondata = [ domain |-> domain[1] ]
                @@ (IF Truthy(begin) THEN [ begin |-> begin[1] ] ELSE EmptyDict)
                @@ (IF Truthy(end) THEN [ end |-> end[1] ] ELSE EmptyDict)
                @@ [ logs |-> << >> ]
  /\ stdout = << >>
  /\ stderr = IF a.verbose
              THEN << [ kind |-> "begin date", value |-> begin ],
                      [ kind |-> "end date", value |-> end ] >>
              ELSE << >>
  /\ exitcode = None
  /\ error = None
  /\ gpc = "created"
  /\ url = None
  /\ params = None
  /\ data = None
  /\ idx = 0
  /\ log = None
  /\ requests = << >>
  /\ pages = << >>
  /\ yielded = << >>

InitFetch ==
  /\ type = None
  /\ severity = None
  /\ \E a \in FetchArgs :
       AtLoop(a, NoEnviron, FetchClock,
              ResolveBegin(a, FetchClock).val, ResolveEnd(a, FetchClock).val)

NextFetch ==
  \/ LogsStart
  \/ \E resp \in RichResponses : LogsRequest(resp)
  \/ LogsYield
  \/ LoopBodyJson
  \/ LoopBodyText
  \/ LogsPaging
  \/ Finish

SpecFetch == InitFetch /\ [][NextFetch]_vars

(* logs() called with every combination of its arguments, iterated by the  *)
(* loop of main().                                                         *)
LogsBegins == { None, Some(EmptyText), Some(WireMidnight) }

LogsEnds == { None, Some(EmptyText), Some(WireEvening) }

LogsSeverities == { None, Some(""), Some("permanent"), Some("temporary") }

LogsTypes == { None, Some(""), Some("failed"), Some("delivered") }

InitLogs ==
  /\ type \in LogsTypes
  /\ severity \in LogsSeverities
  /\ \E a \in { f \in FetchArgs : f.begin = None /\ ~f.verbose },
        b \in LogsBegins, e \in LogsEnds :
       AtLoop(a, NoEnviron, FetchClock, b, e)

NextLogs ==
  \/ LogsStart
  \/ \E resp \in SparseResponses : LogsRequest(resp)
  \/ LogsYield
  \/ LoopBodyJson
  \/ LoopBodyText
  \/ LogsPaging
  \/ Finish

SpecLogs == InitLogs /\ [][NextLogs]_vars

-----------------------------------------------------------------------------
(* The properties. *)

(* The records of the first k pages received, in order. *)
ItemsOf(k) == Concat([ i \in 1..k |-> pages[i].items ])

(* The lines of text mode for a sequence of records. *)
LinesOf(recs) == [ j \in 1..Len(recs) |-> FormatLine(recs[j]).val ]

IsUpstreamError == error # None /\ error[1].type = "ValueError"

EmptyPageReceived ==
  /\ pages # << >>
  /\ pages[Len(pages)].status = 200
  /\ pages[Len(pages)].items = << >>

(* C1: once pages 1..N with items have been followed by a page N+1 without *)
(* items, logs() has yielded exactly the items of pages 1..N in order, no  *)
(* error was raised, page N+1 was the last request, and the generator is   *)
(* at its return, whatever paging.next of page N+1 is.                     *)
C1_DrainsToEmptyPage ==
  EmptyPageReceived =>
    /\ yielded = ItemsOf(Len(pages) - 1)
    /\ \A i \in 1..(Len(pages) - 1) : pages[i].items # << >>
    /\ Len(requests) = Len(pages)
    /\ error = None
    /\ exitcode \in { None, Some(0) }
    /\ \/ gpc = "returned"
       \/ gpc = "items" /\ idx > Len(data[1].items)
    /\ pc = "exited" => gpc = "returned" /\ exitcode = Some(0)

C1_Witness ==
  /\ EmptyPageReceived
  /\ pc = "exited"
  /\ Len(pages) = 3
  /\ pages[3].next = Some(PageUrl("tokenB"))
  /\ yielded = << RecFailed, RecDelivered, RecFailed >>

C1_WitnessMalformedNext ==
  /\ EmptyPageReceived
  /\ gpc = "returned"
  /\ Len(pages) >= 2
  /\ pages[Len(pages)].next = Some(MalformedUrl)

(* C2: the first request goes to the events URL with the query parameters  *)
(* (a non-empty subset of begin, end, ascending, severity, event); every   *)
(* later request has no parameters and goes to exactly the paging.next of  *)
(* the page before it.                                                     *)
C2_OnlyFirstRequestHasParams ==
  \A i \in 1..Len(requests) :
    IF i = 1
    THEN /\ requests[1].params # None
         /\ DOMAIN requests[1].params[1] # {}
         /\ DOMAIN requests[1].params[1]
              \subseteq { "begin", "end", "ascending", "severity", "event" }
         /\ requests[1].url = EventsUrl(domain[1])
    ELSE /\ requests[i].params = None
         /\ requests[i].url = pages[i - 1].next[1]

C2_Witness ==
  /\ Len(requests) = 3
  /\ requests[2].url = PageUrl("tokenA")
  /\ requests[3].url = PageUrl("tokenB")
  /\ "begin" \in DOMAIN requests[1].params[1]

(* C3: a response with a non-success status is the last one of the run:    *)
(* logs() raises an error carrying its status code, none of its records is *)
(* yielded, no request follows it, and the records of the pages before it  *)
(* have all been yielded.                                                  *)
C3_ErrorStatusAborts ==
  \A i \in 1..Len(pages) :
    pages[i].status >= 400 =>
      /\ i = Len(pages)
      /\ Len(requests) = i
      /\ error = Some([ type |-> "ValueError", status_code |-> pages[i].status ])
      /\ gpc = "raised"
      /\ pc = "crashed"
      /\ yielded = ItemsOf(i - 1)

C3_Witness ==
  /\ Len(pages) = 3
  /\ pages[3].status = 500
  /\ pages[3].items # << >>
  /\ pages[3].next # None
  /\ Len(yielded) = 2

(* C4: in JSON mode stdout stays empty until the generator has returned    *)
(* after the empty page; then it holds the one document, with every record *)
(* fetched. A run that an upstream error ends has printed nothing.         *)
C4_JsonAllOrNothing ==
  args.json =>
    /\ IF pc = "exited"
       THEN /\ EmptyPageReceived
            /\ error = None
            /\ stdout = << [ kind |-> "json", doc |-> jsondata ] >>
            /\ jsondata.logs = ItemsOf(Len(pages))
       ELSE stdout = << >>
    /\ IsUpstreamError => stdout = << >>

C4_Witness ==
  /\ args.json
  /\ IsUpstreamError
  /\ Len(pages) = 3
  /\ Len(jsondata.logs) = 2
  /\ stdout = << >>

(* C10: in text mode, whenever k+1 requests have been issued, stdout       *)
(* starts with the lines of all records of pages 1..k, in order; when an   *)
(* upstream error ends the run on page k+1, stdout is exactly those lines. *)
C10_TextLinesBeforeNextRequest ==
  (~args.json /\ Len(requests) >= 2) =>
    LET earlier == ItemsOf(Len(requests) - 1)
    IN /\ Len(stdout) >= Len(earlier)
       /\ SubSeq(stdout, 1, Len(earlier)) = LinesOf(earlier)
       /\ IsUpstreamError => stdout = LinesOf(earlier)

C10_Witness ==
  /\ ~args.json
  /\ IsUpstreamError
  /\ Len(pages) = 3
  /\ Len(stdout) = 2
  /\ stdout[1].status = "FAILED"
  /\ stdout[2].status = "DELIVERED"

(* C6: in text mode no record makes the formatter fail: every record taken *)
(* from the generator gets its line, a record without timestamp too.       *)
C6_MissingFieldsNeverFail ==
  ~args.json =>
    /\ error = None \/ error[1].type # "TypeError"
    /\ (gpc = "items" \/ gpc = "returned") => Len(stdout) = Len(yielded)

(* C8: the first request carries ascending=no exactly when no end is given *)
(* (end is None or empty, so that no end parameter is sent), and carries   *)
(* the end parameter and no ordering parameter exactly when end is given.  *)
C8_AscendingIffNoEnd ==
  requests # << >> =>
    LET p == requests[1].params[1]
    IN /\ "ascending" \in DOMAIN p <=> ~Truthy(end)
       /\ "ascending" \in DOMAIN p <=> "end" \notin DOMAIN p
       /\ "ascending" \in DOMAIN p => p["ascending"] = "no"
       /\ "end" \in DOMAIN p => p["end"] = end[1]

C8_Witness ==
  /\ requests # << >>
  /\ DOMAIN requests[1].params[1] = { "begin", "end", "severity", "event" }

C8_WitnessDescending ==
  /\ requests # << >>
  /\ end = Some(EmptyText)
  /\ DOMAIN requests[1].params[1] = { "ascending", "severity" }

(* C9: without the version flag, when the domain or the API key is in      *)
(* neither the arguments nor the environment, no request is ever issued    *)
(* and the process ends with status 1 whatever the other options are;      *)
(* otherwise a run that reaches the end of main() ends with status 0.      *)
CredentialMissing ==
  \/ ~TruthyStr(args.domain) /\ environ.MAILGUN_DOMAIN = None
  \/ ~TruthyStr(args.api_key) /\ environ.MAILGUN_API_KEY = None

C9_MissingCredentialExits1 ==
  IF ~args.version /\ CredentialMissing
  THEN /\ requests = << >>
       /\ gpc = "none"
       /\ exitcode \in { None, Some(1) }
       /\ pc \in { "start", "credentials", "exited", "crashed" }
       /\ pc \in { "exited", "crashed" } <=> exitcode = Some(1)
  ELSE pc = "exited" => exitcode = Some(0)

C9_Witness ==
  /\ ~args.version
  /\ CredentialMissing
  /\ TruthyInt(args.days)
  /\ Truthy(args.end)
  /\ TruthyStr(args.domain)
  /\ pc = "exited"
  /\ exitcode = Some(1)
  /\ stdout = << [ kind |-> "message", text |-> "Missing mailgun API key" ] >>

C9_WitnessCompleted ==
  /\ ~args.version
  /\ ~CredentialMissing
  /\ pc = "exited"
  /\ exitcode = Some(0)
  /\ Len(requests) = 2

(* main() is past the date interval of lines 131-143. *)
IntervalResolved == ~args.version /\ pc \notin { "start", "crashed" }

(* C5: with a relative day count, the end of the window is the current UTC *)
(* instant: today's date with the hour, minute and second of the clock.    *)
C5_RelativeEndIsNow ==
  (TruthyInt(args.days) /\ IntervalResolved) =>
    end = Some(StrftimeRfc2822(clock.utcnow))

(* C7: whenever a day count is given, 0 included, begin is midnight of     *)
(* today minus that many days, end is set, and the explicit dates are not  *)
(* used.                                                                   *)
C7_AnyDayCountSetsWindow ==
  (args.days # None /\ IntervalResolved) =>
    LET day == MinusDays(clock.today, args.days[1])
    IN /\ begin = Some(StrftimeRfc2822(<< day[1], day[2], day[3], 0, 0, 0 >>))
       /\ end # None

====
